---- MODULE Spec2Model ----
\* A model of generator.py: dependency resolution between table schemas
\* (resolve_dependencies), cell synthesis (generate_value), the per-kind table
\* generation of generate_rows, and the run loop of main.
EXTENDS Integers, Sequences, FiniteSets, TLC

VARIABLES
    schemas,          \* main: the loaded schema documents, in loader order
    pc,               \* position of the run: "build", "resolve", "resolved", "generate", "done", "failed"
    outcome,          \* "running", "ok", or the exception that ended the run
    graph,            \* resolve_dependencies: graph (table name -> set of table names)
    name_to_schema,   \* resolve_dependencies: name_to_schema
    todo,             \* resolve_dependencies: names the loop of line 231 has yet to visit
    visited,          \* resolve_dependencies: visited
    sorted_schemas,   \* resolve_dependencies: sorted_schemas
    stack,            \* the live calls of visit, innermost last: [n, deps_left]
    DATA,             \* the Dataset Store: table name -> rows
    AUTO_INC,         \* auto_increment counters by field name
    SEQ_COUNTER,      \* seq counters by pattern string
    cur,              \* main: index in the resolved order of the table being generated
    gpc,              \* generate_rows: position inside the table being generated
    rows,             \* generate_rows: rows
    row,              \* generate_rows: the row being filled
    fi,               \* generate_rows: index of the next field of the row
    left,             \* generate_rows: iterations left of the running range(...) loop
    pi,               \* generate_rows: index of the parent row of the running group
    base_row,         \* generate_rows: base_row of the running entity
    versions,         \* generate_rows: versions of the running entity
    ver,              \* generate_rows: v of the version loop
    row_group,        \* for each row of rows, the parent row or entity it was made for
    calls,            \* the calls of generate_value made so far, with the value returned
    written,          \* the table names stored at line 255, in order
    rng,              \* random: the raw outputs the seeded generator has produced so far
    rng_pos,          \* random: position of the next output
    fake_rng,         \* Faker: the raw outputs of its seeded generator
    fake_pos,         \* Faker: position of the next output
    today,            \* the day of the wall clock
    run,              \* 1 for the first run, 2 for the repeated run
    first_DATA        \* the Dataset Store the first run ended with

resolve_vars == <<graph, name_to_schema, todo, visited, sorted_schemas, stack>>

loop_vars == <<gpc, rows, row, fi, left, pi, base_row, versions, ver, row_group>>

rand_vars == <<rng, rng_pos, fake_rng, fake_pos>>

gen_vars == <<DATA, AUTO_INC, SEQ_COUNTER, cur, loop_vars, calls, written, rand_vars>>

run_vars == <<today, run, first_DATA>>

vars == <<schemas, pc, outcome, resolve_vars, gen_vars, run_vars>>

-----------------------------------------------------------------------------
\* Bounds of the model.

\* Largest number of dependency edges of a schema set drawn by InitResolve.
MaxEdges == 2

\* Depth of nested visit calls at which the interpreter stops the recursion
\* (CPython raises RecursionError when its recursion limit is reached).
RecursionLimit == 4

\* The raw outputs of a random source are 0 .. RandRange - 1.
RandRange == 2

\* Largest number of rows of the literal source tables drawn by Init.
MaxSource == 3

\* The days the window "-1y" .. "today" of Faker spans.
DateWindow == 2

-----------------------------------------------------------------------------
\* Values.

\* A key that a schema or field definition does not carry.
Absent == "<absent>"

\* The same for a key whose value is a string the program parses.
NoStr == <<"<absent>">>

Range(s) == {s[i] : i \in DOMAIN s}

Min(S) == CHOOSE x \in S : \A y \in S : x <= y

EmptyMap == [x \in {} |-> 0]

\* A Python dict as a function; d.get(k, dflt).
Get(d, k, dflt) == IF k \in DOMAIN d THEN d[k] ELSE dflt

Put(d, k, v) == [x \in (DOMAIN d) \cup {k} |-> IF x = k THEN v ELSE d[x]]

\* {**a, **b}
Merge(a, b) == [x \in (DOMAIN a) \cup (DOMAIN b) |-> IF x \in DOMAIN b THEN b[x] ELSE a[x]]

\* The value of a cell: None, an int, or a str (a sequence of characters).
NoneV == [k |-> "none", n |-> 0, s |-> <<>>]

IntV(i) == [k |-> "int", n |-> i, s |-> <<>>]

StrV(chars) == [k |-> "str", n |-> 0, s |-> chars]

\* str(n) for n >= 0, as a sequence of characters.
DigitChars == <<"0", "1", "2", "3", "4", "5", "6", "7", "8", "9">>

RECURSIVE Digits(_)
Digits(n) ==
    IF n < 10 THEN <<DigitChars[n + 1]>>
    ELSE Append(Digits(n \div 10), DigitChars[(n % 10) + 1])

\* int(s) for a str of decimal digits; -1 stands for the ValueError int raises
\* on any other str the model draws (the empty str, letters, punctuation).
DigitValue(c) == CHOOSE d \in 0..9 : DigitChars[d + 1] = c

RECURSIVE ParseInt(_)
ParseInt(s) ==
    IF s = <<>> \/ \E i \in DOMAIN s : s[i] \notin Range(DigitChars) THEN -1
    ELSE IF Len(s) = 1 THEN DigitValue(s[1])
    ELSE 10 * ParseInt(SubSeq(s, 1, Len(s) - 1)) + DigitValue(s[Len(s)])

\* s.zfill(width)
ZFill_NoPad(s, width) == s

RECURSIVE ZFill(_, _)
ZFill(s, width) == IF Len(s) >= width THEN s ELSE ZFill(<<"0">> \o s, width)

\* s.split(sep), for a one-character sep.
RECURSIVE Split(_, _)
Split(s, sep) ==
    LET at == {i \in DOMAIN s : s[i] = sep}
    IN  IF at = {} THEN <<s>>
        ELSE <<SubSeq(s, 1, Min(at) - 1)>> \o Split(SubSeq(s, Min(at) + 1, Len(s)), sep)

\* s.split(sep, 1)[1]
AfterFirst(s, sep) == SubSeq(s, Min({i \in DOMAIN s : s[i] = sep}) + 1, Len(s))

StartsWith(s, prefix) == Len(s) >= Len(prefix) /\ SubSeq(s, 1, Len(prefix)) = prefix

\* Lines 129-131 and 148-150: the bounds of a range string "a~b" or "a".
RangeMin(str) == ParseInt(Split(str, "~")[1])

RangeMax(str) ==
    LET parts == Split(str, "~")
    IN  IF Len(parts) > 1 THEN ParseInt(parts[Len(parts)]) ELSE RangeMin(str)

\* date.isoformat() and strftime("%Y-%m-%dT%H:%M:%S") of the day numbered d: the
\* calendar is outside the program; days are told apart by their number.
IsoDate(d) == StrV(<<"D">> \o Digits(d))

IsoDateTime(d) == StrV(<<"D">> \o Digits(d) \o <<"T">>)

\* datetime.strftime(fmt) of day d: each directive "%x" renders a part of the date.
RECURSIVE Strftime(_, _)
Strftime(d, fmt) ==
    IF fmt = <<>> THEN <<>>
    ELSE IF fmt[1] = "%" /\ Len(fmt) >= 2
         THEN Digits(d) \o Strftime(d, SubSeq(fmt, 3, Len(fmt)))
         ELSE <<fmt[1]>> \o Strftime(d, Tail(fmt))

-----------------------------------------------------------------------------
\* Schemas.

FieldDef(type) ==
    [type |-> type, nullable |-> FALSE, has_default |-> FALSE, default |-> NoneV,
     min |-> 0, max |-> 100, table |-> Absent, field |-> Absent,
     pattern |-> NoStr, value |-> NoneV]

RefDef(t, f) == [FieldDef("ref") EXCEPT !.table = t, !.field = f]

IntDef(lo, hi) == [FieldDef("int") EXCEPT !.min = lo, !.max = hi]

ConstDef(v) == [FieldDef("const") EXCEPT !.value = v]

CodeDef(p) == [FieldDef("code") EXCEPT !.pattern = p]

Nullable(d) == [d EXCEPT !.nullable = TRUE]

WithDefault(d, v) == [d EXCEPT !.has_default = TRUE, !.default = v]

F(name, def) == [name |-> name, def |-> def]

Schema(name, type) ==
    [table_name |-> name, type |-> type, fields |-> <<>>, count |-> 0,
     parent |-> Absent, count_per_parent |-> NoStr, version_range |-> NoStr,
     source_table |-> Absent, key |-> <<>>, latest_field |-> Absent,
     has_records |-> FALSE, records |-> <<>>]

-----------------------------------------------------------------------------
\* resolve_dependencies.

\* Lines 209-218: the names one schema contributes to graph[name].
SchemaDeps_NoParent(schema) ==
    {schema.fields[i].def.table :
        i \in {j \in DOMAIN schema.fields : schema.fields[j].def.type = "ref"}}
    \cup (IF schema.type = "pointer" THEN {schema.source_table} ELSE {})

SchemaDeps_NoSource(schema) ==
    {schema.fields[i].def.table :
        i \in {j \in DOMAIN schema.fields : schema.fields[j].def.type = "ref"}}
    \cup (IF schema.parent # Absent THEN {schema.parent} ELSE {})

SchemaDeps(schema) ==
    {schema.fields[i].def.table :
        i \in {j \in DOMAIN schema.fields : schema.fields[j].def.type = "ref"}}
    \cup (IF schema.parent # Absent THEN {schema.parent} ELSE {})
    \cup (IF schema.type = "pointer" THEN {schema.source_table} ELSE {})

\* Lines 204-218, the loop over schemas: graph after the first k schemas.
RECURSIVE GraphAfter(_, _)
GraphAfter(ss, k) ==
    IF k = 0 THEN EmptyMap
    ELSE LET g == GraphAfter(ss, k - 1)
             name == ss[k].table_name
             deps == SchemaDeps(ss[k])
         IN  IF deps = {} THEN g
             ELSE Put(g, name, Get(g, name, {}) \cup deps)

\* Lines 204-206: name_to_schema after the first k schemas.
RECURSIVE NamesAfter(_, _)
NamesAfter(ss, k) ==
    IF k = 0 THEN EmptyMap
    ELSE Put(NamesAfter(ss, k - 1), ss[k].table_name, ss[k])

\* The keys of name_to_schema in dict order: first insertion of each name.
RECURSIVE KeyOrder(_, _)
KeyOrder(ss, k) ==
    IF k = 0 THEN <<>>
    ELSE LET before == KeyOrder(ss, k - 1)
         IN  IF ss[k].table_name \in Range(before) THEN before
             ELSE Append(before, ss[k].table_name)

\* Lines 201-221.
BuildGraph ==
    /\ pc = "build"
    /\ graph' = GraphAfter(schemas, Len(schemas))
    /\ name_to_schema' = NamesAfter(schemas, Len(schemas))
    /\ todo' = KeyOrder(schemas, Len(schemas))
    /\ visited' = {}
    /\ sorted_schemas' = <<>>
    /\ stack' = <<>>
    /\ pc' = "resolve"
    /\ UNCHANGED <<schemas, outcome, gen_vars, run_vars>>

\* A call visit(n) made with the stack stk (lines 223-226): it returns at once
\* when n is visited, and otherwise starts the loop over graph.get(n, []).
Call(stk, n) ==
    IF n \in visited THEN stk
    ELSE Append(stk, [n |-> n, deps_left |-> Get(graph, n, {})])

\* The call needs a frame the interpreter will not give.
Overflows(stk, n) == n \notin visited /\ Len(stk) >= RecursionLimit

\* Lines 231-232: the next visit(name) of the outer loop.
VisitNext ==
    /\ pc = "resolve"
    /\ stack = <<>>
    /\ todo # <<>>
    /\ stack' = Call(stack, Head(todo))
    /\ todo' = Tail(todo)
    /\ UNCHANGED <<schemas, pc, outcome, graph, name_to_schema, visited, sorted_schemas, gen_vars, run_vars>>

\* Lines 226-227: one iteration of "for dep in graph.get(n, [])"; a set is
\* iterated in an order the program does not fix.
VisitDep ==
    /\ pc = "resolve"
    /\ stack # <<>>
    /\ LET top == stack[Len(stack)]
       IN  \E dep \in top.deps_left :
             /\ ~Overflows(stack, dep)
             /\ stack' = Call([stack EXCEPT ![Len(stack)].deps_left = @ \ {dep}], dep)
    /\ UNCHANGED <<schemas, pc, outcome, graph, name_to_schema, todo, visited, sorted_schemas, gen_vars, run_vars>>

\* Line 227 when the nesting of visit reaches the recursion limit.
VisitOverflow ==
    /\ pc = "resolve"
    /\ stack # <<>>
    /\ \E dep \in stack[Len(stack)].deps_left : Overflows(stack, dep)
    /\ pc' = "failed"
    /\ outcome' = "RecursionError"
    /\ UNCHANGED <<schemas, graph, name_to_schema, todo, visited, sorted_schemas, stack, gen_vars, run_vars>>

\* Lines 228-229 for a name that has a schema.
VisitEmit ==
    /\ pc = "resolve"
    /\ stack # <<>>
    /\ LET top == stack[Len(stack)]
       IN  /\ top.deps_left = {}
           /\ top.n \in DOMAIN name_to_schema
           /\ visited' = visited \cup {top.n}
           /\ sorted_schemas' = Append(sorted_schemas, name_to_schema[top.n])
    /\ stack' = SubSeq(stack, 1, Len(stack) - 1)
    /\ UNCHANGED <<schemas, pc, outcome, graph, name_to_schema, todo, gen_vars, run_vars>>

\* Lines 228-229 for a name without a schema: name_to_schema[n] raises KeyError.
VisitUnknown ==
    /\ pc = "resolve"
    /\ stack # <<>>
    /\ LET top == stack[Len(stack)]
       IN  /\ top.deps_left = {}
           /\ top.n \notin DOMAIN name_to_schema
           /\ visited' = visited \cup {top.n}
    /\ pc' = "failed"
    /\ outcome' = "KeyError: name_to_schema"
    /\ UNCHANGED <<schemas, graph, name_to_schema, todo, sorted_schemas, stack, gen_vars, run_vars>>

\* Line 234: return sorted_schemas.
ResolveReturn ==
    /\ pc = "resolve"
    /\ stack = <<>>
    /\ todo = <<>>
    /\ pc' = "generate"
    /\ UNCHANGED <<schemas, outcome, graph, name_to_schema, todo, visited, sorted_schemas, stack, gen_vars, run_vars>>

-----------------------------------------------------------------------------
\* generate_value.

Letters ==
    <<"A", "B", "C", "D", "E", "F", "G", "H", "I", "J", "K", "L", "M",
      "N", "O", "P", "Q", "R", "S", "T", "U", "V", "W", "X", "Y", "Z">>

\* Line 71: the pattern of a code field without one.
DefaultPattern == <<"C", "O", "D", "E", "-", "{", "s", "e", "q", ":", "6", "}">>

PatternOf(field_def) ==
    IF field_def.pattern = NoStr THEN DefaultPattern ELSE field_def.pattern

\* The i-th raw output a call reads from the outputs us it is given.
Raw(us, i) == IF i <= Len(us) THEN us[i] ELSE 0

\* Lines 73-83: replace(m) for the token of one match, continuing the
\* expansion st = [out, seq, used, err] of the pattern.
replace(pattern, token, st, src) ==
    IF StartsWith(token, <<"d", "a", "t", "e", ":">>)
    THEN [st EXCEPT !.out = @ \o Strftime(today, AfterFirst(token, ":"))]
    ELSE IF StartsWith(token, <<"s", "e", "q", ":">>)
    THEN LET width == ParseInt(Split(token, ":")[2])
             count == Get(st.seq, pattern, 0) + 1
         IN  IF width < 0 THEN [st EXCEPT !.err = "ValueError"]
             ELSE [st EXCEPT !.seq = Put(@, pattern, count),
                             !.out = @ \o ZFill(Digits(count), width)]
    ELSE IF token = <<"a", "l", "p", "h", "a">>
    THEN [st EXCEPT !.out = Append(@, Letters[(Raw(src.u, st.used + 1) % Len(Letters)) + 1]),
                    !.used = @ + 1]
    ELSE [st EXCEPT !.out = @ \o <<"<", "U", "N", "K", "N", "O", "W", "N", ":">> \o token \o <<">">>]

\* Line 85: re.sub(r"\{(.*?)\}", replace, pattern) from position i on.
RECURSIVE Expand(_, _, _, _)
Expand(pattern, i, st, src) ==
    IF i > Len(pattern) \/ st.err # "none" THEN st
    ELSE LET closing == {j \in (i + 1)..Len(pattern) : pattern[j] = "}"}
         IN  IF pattern[i] = "{" /\ closing # {}
             THEN Expand(pattern, Min(closing) + 1,
                         replace(pattern, SubSeq(pattern, i + 1, Min(closing) - 1), st, src),
                         src)
             ELSE Expand(pattern, i + 1, [st EXCEPT !.out = Append(@, pattern[i])], src)

\* random.randint(a, b), a <= b, from the raw output u (lines 58, 135, 157).
RandInt_FromZero(a, b, u) == u % (b + 1)

RandInt(a, b, u) == a + (u % (b - a + 1))

\* Lines 34-93. src holds what the call may read from the random sources: u, the
\* coming raw outputs of random; e, the entropy uuid4 takes from the operating
\* system; f, the coming raw output of Faker. The result is the value returned
\* or the exception raised, the counters after the call, and how many outputs
\* of random (used) and of Faker (fused) the call consumed.
generate_value(field_name, field_def, context, src) ==
    LET asked == IF field_def.nullable THEN 1 ELSE 0
        base == [val |-> NoneV, err |-> "none", auto |-> AUTO_INC, seq |-> SEQ_COUNTER,
                 used |-> asked, fused |-> 0]
        ftype == field_def.type
    IN  IF field_def.nullable /\ Raw(src.u, 1) = 0 THEN base
        ELSE IF field_def.has_default THEN [base EXCEPT !.val = field_def.default]
        ELSE IF ftype = "uuid" THEN [base EXCEPT !.val = StrV(<<"U">> \o Digits(src.e))]
        ELSE IF ftype = "const" THEN [base EXCEPT !.val = field_def.value]
        ELSE IF ftype = "int" THEN
            IF field_def.min > field_def.max THEN [base EXCEPT !.err = "ValueError"]
            ELSE [base EXCEPT
                    !.val = IntV(RandInt(field_def.min, field_def.max, Raw(src.u, asked + 1))),
                    !.used = asked + 1]
        ELSE IF ftype = "date" THEN
            [base EXCEPT !.val = IsoDate(today - (src.f % DateWindow)), !.fused = 1]
        ELSE IF ftype = "timestamp" THEN
            [base EXCEPT !.val = IsoDateTime(today - (src.f % DateWindow)), !.fused = 1]
        ELSE IF ftype = "ref" THEN
            IF field_def.table \notin DOMAIN DATA
            THEN [base EXCEPT !.err = "KeyError: ref table not generated"]
            ELSE IF DATA[field_def.table] = <<>> THEN [base EXCEPT !.err = "IndexError"]
            ELSE LET target == DATA[field_def.table]
                     chosen == target[(Raw(src.u, asked + 1) % Len(target)) + 1]
                 IN  IF field_def.field \notin DOMAIN chosen
                     THEN [base EXCEPT !.err = "KeyError: field", !.used = asked + 1]
                     ELSE [base EXCEPT !.val = chosen[field_def.field], !.used = asked + 1]
        ELSE IF ftype = "code" THEN
            LET r == Expand(PatternOf(field_def), 1,
                            [out |-> <<>>, seq |-> SEQ_COUNTER, used |-> asked, err |-> "none"],
                            src)
            IN  [base EXCEPT !.val = StrV(r.out), !.seq = r.seq, !.used = r.used, !.err = r.err]
        ELSE IF ftype = "version_sequence" THEN
            [base EXCEPT !.val = Get(context, "__version__", IntV(1))]
        ELSE IF ftype = "auto_increment" THEN
            [base EXCEPT !.auto = Put(AUTO_INC, field_name, Get(AUTO_INC, field_name, 0) + 1),
                         !.val = IntV(Get(AUTO_INC, field_name, 0) + 1)]
        ELSE base

\* The most outputs of random a call for field_def reads.
DrawNeed(field_def) ==
    (IF field_def.nullable THEN 1 ELSE 0)
    + (IF field_def.type \in {"int", "ref"} THEN 1
       ELSE IF field_def.type = "code"
            THEN Cardinality({i \in DOMAIN PatternOf(field_def) : PatternOf(field_def)[i] = "{"})
            ELSE 0)

\* The outputs of random still to be replayed, and those a source may produce next.
Pending == SubSeq(rng, rng_pos, Len(rng))

FakePending == SubSeq(fake_rng, fake_pos, Len(fake_rng))

\* What the random sources may hand to one call for field_def: a seeded
\* generator repeats the outputs it produced before and is free beyond them;
\* the entropy of the operating system is free at every call.
Sources(field_def) ==
    LET more == IF DrawNeed(field_def) > Len(Pending)
                THEN DrawNeed(field_def) - Len(Pending) ELSE 0
    IN  {[u |-> Pending \o ext, e |-> e, f |-> f] :
            ext \in [1..more -> 0..(RandRange - 1)],
            e \in (IF field_def.type = "uuid" THEN 0..(RandRange - 1) ELSE {0}),
            f \in (IF field_def.type \notin {"date", "timestamp"} THEN {0}
                   ELSE IF FakePending # <<>> THEN {Head(FakePending)}
                   ELSE 0..(RandRange - 1))}

\* The random sources after a call that consumed res.used and res.fused outputs of src.
Consume(res, src) ==
    /\ rng' = rng \o SubSeq(src.u, Len(Pending) + 1, res.used)
    /\ rng_pos' = rng_pos + res.used
    /\ fake_rng' = IF res.fused = 1 /\ FakePending = <<>> THEN Append(fake_rng, src.f)
                   ELSE fake_rng
    /\ fake_pos' = fake_pos + res.fused

\* The outputs random may give to one call of randint made by generate_rows.
NextRaw == IF Pending # <<>> THEN {Head(Pending)} ELSE 0..(RandRange - 1)

ConsumeRaw(u) ==
    /\ rng' = IF Pending = <<>> THEN Append(rng, u) ELSE rng
    /\ rng_pos' = rng_pos + 1
    /\ UNCHANGED <<fake_rng, fake_pos>>

-----------------------------------------------------------------------------
\* generate_rows and main.

\* Lines 106-173: the branch generate_rows takes for a schema.
Kind(schema) ==
    IF schema.has_records THEN "records"
    ELSE IF schema.type = "master" THEN "flat"
    ELSE IF schema.type \in {"immutable", "transactional"} /\ schema.parent # Absent THEN "child"
    ELSE IF schema.type = "immutable" THEN "immutable"
    ELSE IF schema.type = "transactional" THEN "flat"
    ELSE IF schema.type = "pointer" THEN "pointer"
    ELSE "none"

\* Line 180: the key of a source row.
KeyOf(r, key_fields) == [i \in DOMAIN key_fields |-> r[key_fields[i]]]

\* Lines 178-181: the keys of group in dict order, after the first k source rows.
RECURSIVE GroupKeys(_, _, _)
GroupKeys(source, key_fields, k) ==
    IF k = 0 THEN <<>>
    ELSE LET before == GroupKeys(source, key_fields, k - 1)
             key == KeyOf(source[k], key_fields)
         IN  IF key \in Range(before) THEN before ELSE Append(before, key)

\* Lines 178-181: group[key].
Group(source, key_fields, key) == SelectSeq(source, LAMBDA r : KeyOf(r, key_fields) = key)

\* Line 184: sorted(versions, key=lambda r: r[latest_field], reverse=True) of the
\* first k rows, for int values. The sort is stable, also when reversed: a row
\* goes behind every row whose value is not smaller than its own.
RECURSIVE SortedVersions_Ascending(_, _, _)
SortedVersions_Ascending(vs, latest_field, k) ==
    IF k = 0 THEN <<>>
    ELSE LET before == SortedVersions_Ascending(vs, latest_field, k - 1)
             x == vs[k]
             at == Cardinality({i \in DOMAIN before :
                                   ~(x[latest_field].n < before[i][latest_field].n)})
         IN  SubSeq(before, 1, at) \o <<x>> \o SubSeq(before, at + 1, Len(before))

RECURSIVE SortedVersions(_, _, _)
SortedVersions(vs, latest_field, k) ==
    IF k = 0 THEN <<>>
    ELSE LET before == SortedVersions(vs, latest_field, k - 1)
             x == vs[k]
             at == Cardinality({i \in DOMAIN before :
                                   ~(before[i][latest_field].n < x[latest_field].n)})
         IN  SubSeq(before, 1, at) \o <<x>> \o SubSeq(before, at + 1, Len(before))

\* Lines 174-186: the rows of a pointer table, or the exception raised.
PointerRows(schema) ==
    IF schema.source_table \notin DOMAIN DATA THEN [err |-> "KeyError: DATA", rows |-> <<>>]
    ELSE
    LET source == DATA[schema.source_table]
        keys == GroupKeys(source, schema.key, Len(source))
        latest_field == schema.latest_field
    IN  IF \E i \in DOMAIN source :
               \/ \E j \in DOMAIN schema.key : schema.key[j] \notin DOMAIN source[i]
               \/ latest_field \notin DOMAIN source[i]
        THEN [err |-> "KeyError: field", rows |-> <<>>]
        ELSE IF \E i \in DOMAIN keys :
                   LET versions_ == Group(source, schema.key, keys[i])
                   IN  /\ Len(versions_) >= 2
                       /\ \E j \in DOMAIN versions_ : versions_[j][latest_field].k # "int"
        THEN [err |-> "TypeError", rows |-> <<>>]
        ELSE [err |-> "none",
              rows |-> [i \in DOMAIN keys |->
                          LET versions_ == Group(source, schema.key, keys[i])
                          IN  SortedVersions(versions_, latest_field, Len(versions_))[1]]]

\* The count range of a child schema and the version range of an immutable one.
CountRange(schema) ==
    IF schema.count_per_parent = NoStr THEN <<"1">> ELSE schema.count_per_parent

VersionRange(schema) ==
    IF schema.version_range = NoStr THEN <<"1">> ELSE schema.version_range

\* Lines 106-131, 147-150, 173-186: generate_rows up to its first loop.
Begin(schema) ==
    LET start == [err |-> "none", gpc |-> "return", rows |-> <<>>, left |-> 0]
        kind == Kind(schema)
    IN  IF kind = "records" THEN [start EXCEPT !.rows = schema.records]
        ELSE IF kind = "flat" THEN [start EXCEPT !.gpc = "rows", !.left = schema.count]
        ELSE IF kind = "child" THEN
            IF schema.parent \notin DOMAIN DATA THEN [start EXCEPT !.err = "KeyError: DATA"]
            ELSE IF RangeMin(CountRange(schema)) < 0 \/ RangeMax(CountRange(schema)) < 0
                 THEN [start EXCEPT !.err = "ValueError"]
                 ELSE [start EXCEPT !.gpc = "rows"]
        ELSE IF kind = "immutable" THEN
            IF RangeMin(VersionRange(schema)) < 0 \/ RangeMax(VersionRange(schema)) < 0
            THEN [start EXCEPT !.err = "ValueError"]
            ELSE [start EXCEPT !.gpc = "versions", !.left = schema.count]
        ELSE IF kind = "pointer" THEN
            [start EXCEPT !.err = PointerRows(schema).err, !.rows = PointerRows(schema).rows]
        ELSE start

\* The schema main is generating.
Cur == sorted_schemas[cur]

\* An uncaught exception ends the run.
Raise(e) ==
    /\ pc' = "failed"
    /\ outcome' = e
    /\ UNCHANGED <<schemas, resolve_vars, gen_vars, run_vars>>

\* A call of generate_value for field f returned res.
Returned(f, res, src) ==
    /\ AUTO_INC' = res.auto
    /\ SEQ_COUNTER' = res.seq
    /\ calls' = Append(calls, [table |-> Cur.table_name, field |-> f.name,
                               def |-> f.def, val |-> res.val])
    /\ Consume(res, src)

\* Lines 251-254: main takes the next schema and calls generate_rows, which
\* runs up to its first loop.
BeginTable ==
    /\ pc = "generate"
    /\ gpc = "idle"
    /\ cur < Len(sorted_schemas)
    /\ LET b == Begin(sorted_schemas[cur + 1])
       IN  IF b.err # "none" THEN Raise(b.err)
           ELSE /\ cur' = cur + 1
                /\ gpc' = b.gpc
                /\ rows' = b.rows
                /\ left' = b.left
                /\ row' = EmptyMap
                /\ fi' = 1
                /\ pi' = 0
                /\ base_row' = EmptyMap
                /\ versions' = 0
                /\ ver' = 1
                /\ row_group' = <<>>
                /\ UNCHANGED <<schemas, pc, outcome, resolve_vars, DATA, AUTO_INC, SEQ_COUNTER,
                               calls, written, rand_vars, run_vars>>

\* Lines 117-118, 135-136, 167-168: the next iteration of a range(...) loop of rows.
NextRow ==
    /\ pc = "generate"
    /\ gpc = "rows"
    /\ left > 0
    /\ left' = left - 1
    /\ row' = EmptyMap
    /\ fi' = 1
    /\ gpc' = "row"
    /\ UNCHANGED <<schemas, pc, outcome, resolve_vars, DATA, AUTO_INC, SEQ_COUNTER, cur, rows,
                   pi, base_row, versions, ver, row_group, calls, written, rand_vars, run_vars>>

\* Lines 119-120, 169-170: one field of a row of a master or parent-less
\* transactional table.
FlatCell ==
    /\ pc = "generate"
    /\ gpc = "row"
    /\ Kind(Cur) = "flat"
    /\ fi <= Len(Cur.fields)
    /\ LET f == Cur.fields[fi]
       IN  \E src \in Sources(f.def) :
             LET res == generate_value(f.name, f.def, row, src)
             IN  IF res.err # "none" THEN Raise(res.err)
                 ELSE /\ row' = Put(row, f.name, res.val)
                      /\ fi' = fi + 1
                      /\ Returned(f, res, src)
                      /\ UNCHANGED <<schemas, pc, outcome, resolve_vars, DATA, cur, gpc, rows,
                                     left, pi, base_row, versions, ver, row_group, written,
                                     run_vars>>

\* Lines 137-144: one field of a row of a table with a parent.
ChildCell ==
    /\ pc = "generate"
    /\ gpc = "row"
    /\ Kind(Cur) = "child"
    /\ fi <= Len(Cur.fields)
    /\ LET f == Cur.fields[fi]
           parent == DATA[Cur.parent][pi]
       IN  IF f.def.type = "ref" /\ f.def.table = Cur.parent /\ f.def.field \in DOMAIN parent
           THEN /\ row' = Put(row, f.name, parent[f.def.field])
                /\ fi' = fi + 1
                /\ UNCHANGED <<schemas, pc, outcome, resolve_vars, DATA, AUTO_INC, SEQ_COUNTER,
                               cur, gpc, rows, left, pi, base_row, versions, ver, row_group,
                               calls, written, rand_vars, run_vars>>
           ELSE IF f.def.type = "version_sequence"
           THEN /\ row' = Put(row, f.name, Get(parent, "version", IntV(1)))
                /\ fi' = fi + 1
                /\ UNCHANGED <<schemas, pc, outcome, resolve_vars, DATA, AUTO_INC, SEQ_COUNTER,
                               cur, gpc, rows, left, pi, base_row, versions, ver, row_group,
                               calls, written, rand_vars, run_vars>>
           ELSE \E src \in Sources(f.def) :
                  LET res == generate_value(f.name, f.def, Merge(row, parent), src)
                  IN  IF res.err # "none" THEN Raise(res.err)
                      ELSE /\ row' = Put(row, f.name, res.val)
                           /\ fi' = fi + 1
                           /\ Returned(f, res, src)
                           /\ UNCHANGED <<schemas, pc, outcome, resolve_vars, DATA, cur, gpc,
                                          rows, left, pi, base_row, versions, ver, row_group,
                                          written, run_vars>>

\* Lines 121, 145, 171: rows.append(row).
RowDone ==
    /\ pc = "generate"
    /\ gpc = "row"
    /\ fi > Len(Cur.fields)
    /\ rows' = Append(rows, row)
    /\ row_group' = Append(row_group, pi)
    /\ gpc' = "rows"
    /\ UNCHANGED <<schemas, pc, outcome, resolve_vars, DATA, AUTO_INC, SEQ_COUNTER, cur, row, fi,
                   left, pi, base_row, versions, ver, calls, written, rand_vars, run_vars>>

\* Lines 133-135: the next parent row: the counters are cleared and the number
\* of its child rows is drawn.
NextGroup ==
    /\ pc = "generate"
    /\ gpc = "rows"
    /\ Kind(Cur) = "child"
    /\ left = 0
    /\ pi < Len(DATA[Cur.parent])
    /\ LET minc == RangeMin(CountRange(Cur))
           maxc == RangeMax(CountRange(Cur))
       IN  IF minc > maxc THEN Raise("ValueError")
           ELSE \E u \in NextRaw :
                  /\ pi' = pi + 1
                  /\ AUTO_INC' = EmptyMap
                  /\ left' = RandInt(minc, maxc, u)
                  /\ ConsumeRaw(u)
                  /\ UNCHANGED <<schemas, pc, outcome, resolve_vars, DATA, SEQ_COUNTER, cur, gpc,
                                 rows, row, fi, base_row, versions, ver, row_group, calls,
                                 written, run_vars>>

\* Lines 151-152: the next entity of a parent-less immutable table.
NextEntity ==
    /\ pc = "generate"
    /\ gpc = "versions"
    /\ ver > versions
    /\ left > 0
    /\ left' = left - 1
    /\ pi' = pi + 1
    /\ base_row' = EmptyMap
    /\ fi' = 1
    /\ gpc' = "base"
    /\ UNCHANGED <<schemas, pc, outcome, resolve_vars, DATA, AUTO_INC, SEQ_COUNTER, cur, rows, row,
                   versions, ver, row_group, calls, written, rand_vars, run_vars>>

\* Lines 152-156: one field of base_row; version_sequence fields are left out.
BaseCell ==
    /\ pc = "generate"
    /\ gpc = "base"
    /\ fi <= Len(Cur.fields)
    /\ LET f == Cur.fields[fi]
       IN  IF f.def.type = "version_sequence"
           THEN /\ fi' = fi + 1
                /\ UNCHANGED <<schemas, pc, outcome, resolve_vars, DATA, AUTO_INC, SEQ_COUNTER,
                               cur, gpc, rows, row, left, pi, base_row, versions, ver, row_group,
                               calls, written, rand_vars, run_vars>>
           ELSE \E src \in Sources(f.def) :
                  LET res == generate_value(f.name, f.def, EmptyMap, src)
                  IN  IF res.err # "none" THEN Raise(res.err)
                      ELSE /\ base_row' = Put(base_row, f.name, res.val)
                           /\ fi' = fi + 1
                           /\ Returned(f, res, src)
                           /\ UNCHANGED <<schemas, pc, outcome, resolve_vars, DATA, cur, gpc,
                                          rows, row, left, pi, versions, ver, row_group, written,
                                          run_vars>>

\* Line 157: versions = random.randint(minv, maxv).
PickVersions ==
    /\ pc = "generate"
    /\ gpc = "base"
    /\ fi > Len(Cur.fields)
    /\ LET minv == RangeMin(VersionRange(Cur))
           maxv == RangeMax(VersionRange(Cur))
       IN  IF minv > maxv THEN Raise("ValueError")
           ELSE \E u \in NextRaw :
                  /\ versions' = RandInt(minv, maxv, u)
                  /\ ver' = 1
                  /\ gpc' = "versions"
                  /\ ConsumeRaw(u)
                  /\ UNCHANGED <<schemas, pc, outcome, resolve_vars, DATA, AUTO_INC, SEQ_COUNTER,
                                 cur, rows, row, fi, left, pi, base_row, row_group, calls,
                                 written, run_vars>>

\* Lines 158-160: the row of version ver starts as a copy of base_row.
NextVersion ==
    /\ pc = "generate"
    /\ gpc = "versions"
    /\ ver <= versions
    /\ row' = base_row
    /\ fi' = 1
    /\ gpc' = "vrow"
    /\ UNCHANGED <<schemas, pc, outcome, resolve_vars, DATA, AUTO_INC, SEQ_COUNTER, cur, rows,
                   left, pi, base_row, versions, ver, row_group, calls, written, rand_vars,
                   run_vars>>

\* Line 159: context = {"__version__": v, **base_row}
VersionContext_FromZero(v, base) == Merge(Put(EmptyMap, "__version__", IntV(v - 1)), base)

VersionContext(v, base) == Merge(Put(EmptyMap, "__version__", IntV(v)), base)

\* Lines 161-163: one field of the row of version ver; only version_sequence
\* fields are synthesized.
VersionCell ==
    /\ pc = "generate"
    /\ gpc = "vrow"
    /\ fi <= Len(Cur.fields)
    /\ LET f == Cur.fields[fi]
       IN  IF f.def.type # "version_sequence"
           THEN /\ fi' = fi + 1
                /\ UNCHANGED <<schemas, pc, outcome, resolve_vars, DATA, AUTO_INC, SEQ_COUNTER,
                               cur, gpc, rows, row, left, pi, base_row, versions, ver, row_group,
                               calls, written, rand_vars, run_vars>>
           ELSE \E src \in Sources(f.def) :
                  LET res == generate_value(f.name, f.def, VersionContext(ver, base_row), src)
                  IN  IF res.err # "none" THEN Raise(res.err)
                      ELSE /\ row' = Put(row, f.name, res.val)
                           /\ fi' = fi + 1
                           /\ Returned(f, res, src)
                           /\ UNCHANGED <<schemas, pc, outcome, resolve_vars, DATA, cur, gpc,
                                          rows, left, pi, base_row, versions, ver, row_group,
                                          written, run_vars>>

\* Line 164: rows.append(row), and the version loop goes on.
VersionRowDone ==
    /\ pc = "generate"
    /\ gpc = "vrow"
    /\ fi > Len(Cur.fields)
    /\ rows' = Append(rows, row)
    /\ row_group' = Append(row_group, pi)
    /\ ver' = ver + 1
    /\ gpc' = "versions"
    /\ UNCHANGED <<schemas, pc, outcome, resolve_vars, DATA, AUTO_INC, SEQ_COUNTER, cur, row, fi,
                   left, pi, base_row, versions, calls, written, rand_vars, run_vars>>

\* generate_rows has run through its loops and is at "return rows" (line 188).
AtReturn ==
    \/ gpc = "return"
    \/ gpc = "rows" /\ left = 0 /\ Kind(Cur) = "flat"
    \/ gpc = "rows" /\ left = 0 /\ Kind(Cur) = "child" /\ pi = Len(DATA[Cur.parent])
    \/ gpc = "versions" /\ ver > versions /\ left = 0

\* Lines 188 and 255: DATA[table_name] = rows.
EndTable ==
    /\ pc = "generate"
    /\ AtReturn
    /\ DATA' = Put(DATA, Cur.table_name, rows)
    /\ written' = Append(written, Cur.table_name)
    /\ gpc' = "idle"
    /\ UNCHANGED <<schemas, pc, outcome, resolve_vars, AUTO_INC, SEQ_COUNTER, cur, rows, row, fi,
                   left, pi, base_row, versions, ver, row_group, calls, rand_vars, run_vars>>

\* Line 251: the loop of main is through.
Finish ==
    /\ pc = "generate"
    /\ gpc = "idle"
    /\ cur = Len(sorted_schemas)
    /\ pc' = "done"
    /\ outcome' = "ok"
    /\ UNCHANGED <<schemas, resolve_vars, gen_vars, run_vars>>

\* A second run of main on the same schemas with the same seeds: the store and
\* the counters start empty again, the seeded generators repeat their outputs,
\* and the wall clock may have moved on.
SecondRun ==
    /\ pc = "done"
    /\ run = 1
    /\ run' = 2
    /\ first_DATA' = DATA
    /\ today' \in {today, today + 1}
    /\ DATA' = EmptyMap
    /\ AUTO_INC' = EmptyMap
    /\ SEQ_COUNTER' = EmptyMap
    /\ rng_pos' = 1
    /\ fake_pos' = 1
    /\ calls' = <<>>
    /\ written' = <<>>
    /\ cur' = 0
    /\ pc' = "build"
    /\ outcome' = "running"
    /\ UNCHANGED <<schemas, resolve_vars, loop_vars, rng, fake_rng>>

\* The state main starts from: lines 29-31 and the fresh random sources.
Fresh ==
    /\ pc = "build"
    /\ outcome = "running"
    /\ graph = EmptyMap
    /\ name_to_schema = EmptyMap
    /\ todo = <<>>
    /\ visited = {}
    /\ sorted_schemas = <<>>
    /\ stack = <<>>
    /\ DATA = EmptyMap
    /\ AUTO_INC = EmptyMap
    /\ SEQ_COUNTER = EmptyMap
    /\ cur = 0
    /\ gpc = "idle"
    /\ rows = <<>>
    /\ row = EmptyMap
    /\ fi = 1
    /\ left = 0
    /\ pi = 0
    /\ base_row = EmptyMap
    /\ versions = 0
    /\ ver = 1
    /\ row_group = <<>>
    /\ calls = <<>>
    /\ written = <<>>
    /\ rng = <<>>
    /\ rng_pos = 1
    /\ fake_rng = <<>>
    /\ fake_pos = 1
    /\ today = 9
    /\ run = 1
    /\ first_DATA = EmptyMap

-----------------------------------------------------------------------------
\* Schema sets for resolve_dependencies: three tables, and dependencies through
\* ref fields, parent links and pointer sources, also on a name without schema.

Tables == {"A", "B", "C"}

Unknown == "Z"

Edges ==
    {e \in [from : Tables, to : Tables \cup {Unknown}, via : {"ref", "parent", "source"}] : TRUE}

RECURSIVE SubsetsUpTo(_, _)
SubsetsUpTo(S, k) ==
    IF k = 0 THEN {{}}
    ELSE LET P == SubsetsUpTo(S, k - 1)
         IN  P \cup {p \cup {e} : p \in P, e \in S}

\* A table has at most one parent and at most one source_table.
WellFormed(es) ==
    \A e1 \in es, e2 \in es :
        (e1.from = e2.from /\ e1.via = e2.via /\ e1.via # "ref") => e1 = e2

RECURSIVE SetToSeq(_)
SetToSeq(S) ==
    IF S = {} THEN <<>>
    ELSE LET x == CHOOSE y \in S : TRUE
         IN  <<x>> \o SetToSeq(S \ {x})

\* The schema of table t under the edges es: one row with an auto_increment
\* id; a ref field is named after its target and reads the target's id.
SchemaOf(t, es) ==
    LET refs == SetToSeq({e.to : e \in {x \in es : x.from = t /\ x.via = "ref"}})
        par == {e.to : e \in {x \in es : x.from = t /\ x.via = "parent"}}
        src == {e.to : e \in {x \in es : x.from = t /\ x.via = "source"}}
        base == Schema(t, IF src # {} THEN "pointer" ELSE "transactional")
    IN  [base EXCEPT
            !.count = 1,
            !.fields = <<F("id", FieldDef("auto_increment"))>>
                       \o [i \in DOMAIN refs |-> F(refs[i], RefDef(refs[i], "id"))],
            !.parent = IF par = {} THEN Absent ELSE CHOOSE p \in par : TRUE,
            !.source_table = IF src = {} THEN Absent ELSE CHOOSE x \in src : TRUE,
            !.key = IF src = {} THEN <<>> ELSE <<"id">>,
            !.latest_field = IF src = {} THEN Absent ELSE "id"]

\* The loader hands the tables over as A, B, C. Every set of edges over the
\* three names is drawn, so a graph occurs in every placement relative to that
\* order: with its edges pointing backward, forward, or both ways.
GraphInputs(k) ==
    {[i \in 1..3 |-> SchemaOf(<<"A", "B", "C">>[i], es)] :
        es \in {x \in SubsetsUpTo(Edges, k) : WellFormed(x)}}

ResolveInputs == GraphInputs(MaxEdges)

-----------------------------------------------------------------------------
\* Schema sets for whole runs.

AutoInc == FieldDef("auto_increment")

VersionSeq == FieldDef("version_sequence")

INV == <<"I", "N", "V", "-", "{", "s", "e", "q", ":", "4", "}">>

PAIR == <<"{", "s", "e", "q", ":", "1", "}", "/", "{", "s", "e", "q", ":", "2", "}">>

MIXED == <<"{", "a", "l", "p", "h", "a", "}", "{", "d", "a", "t", "e", ":", "%", "Y", "}",
           "{", "s", "e", "q", ":", "2", "}", "{", "z", "}">>

LoaderOrders(ss) ==
    {[i \in DOMAIN ss |-> ss[o[i]]] :
        o \in {q \in [DOMAIN ss -> DOMAIN ss] : Range(q) = DOMAIN ss}}

\* Two parent-less tables that number their rows in the field "id", and between
\* them a table with a parent: its rows link to their parent row, and it numbers
\* them per parent.
ParentTable(name) ==
    [Schema(name, "master") EXCEPT
        !.count = 2,
        !.fields = <<F("id", AutoInc), F("code", CodeDef(INV)), F("version", ConstDef(IntV(4)))>>]

ChildTable(type, cpp, link) ==
    [Schema("C", type) EXCEPT
        !.parent = "M1",
        !.count_per_parent = cpp,
        !.fields = <<F("m_id", link), F("line", AutoInc), F("code", CodeDef(INV)),
                     F("v", VersionSeq)>>]

LaterTable ==
    [Schema("M2", "master") EXCEPT
        !.count = 1,
        !.fields = <<F("id", AutoInc), F("code", CodeDef(PAIR)), F("c", RefDef("C", "line"))>>]

CountRanges ==
    {NoStr, <<"1">>, <<"1", "~", "2">>, <<"0", "~", "1">>, <<"2", "~", "1">>, <<"1", "~">>}

Links ==
    {RefDef("M1", "id"), Nullable(WithDefault(RefDef("M1", "id"), IntV(0))),
     RefDef("M1", "code"), RefDef("M1", "nothing")}

ChildInputs ==
    UNION {LoaderOrders(<<ParentTable("M1"), ChildTable(type, cpp, RefDef("M1", "id")), LaterTable>>) :
              type \in {"transactional", "immutable"}, cpp \in CountRanges}
    \cup {<<ChildTable("transactional", <<"1">>, link), ParentTable("M1")>> : link \in Links}

\* A parent-less immutable table with plain, nullable and defaulted
\* version_sequence fields, and a pointer to its latest versions.
VersionRanges ==
    {NoStr, <<"2">>, <<"1", "~", "2">>, <<"0", "~", "1">>, <<"1", "~", "3">>, <<"2", "~", "1">>}

VersionFields ==
    {<<F("id", AutoInc), F("version", VersionSeq), F("amount", IntDef(0, 1))>>,
     <<F("version", VersionSeq), F("id", FieldDef("uuid")), F("rev", VersionSeq),
       F("note", Nullable(ConstDef(IntV(3))))>>,
     <<F("id", AutoInc), F("v_null", Nullable(VersionSeq)), F("version", VersionSeq)>>,
     <<F("id", AutoInc), F("v_def", WithDefault(VersionSeq, IntV(7))), F("version", VersionSeq)>>,
     <<F("__version__", ConstDef(IntV(5))), F("version", VersionSeq)>>}

ImmutableTable(n, range, fields) ==
    [Schema("I", "immutable") EXCEPT !.count = n, !.version_range = range, !.fields = fields]

PointerTable(source, key, latest) ==
    [Schema("P", "pointer") EXCEPT !.source_table = source, !.key = key, !.latest_field = latest]

ImmutableInputs ==
    {<<PointerTable("I", <<"id">>, "version"), ImmutableTable(n, range, fields)>> :
        n \in {1, 2}, range \in VersionRanges, fields \in VersionFields}

\* A table of literal records and a pointer over it: the rows carry a key k, a
\* value v to take the latest of, and their position t.
RECURSIVE SeqsUpTo(_, _)
SeqsUpTo(S, n) ==
    IF n = 0 THEN {<<>>}
    ELSE LET shorter == SeqsUpTo(S, n - 1)
         IN  shorter \cup {Append(q, x) : q \in shorter, x \in S}

SourceRows ==
    {[i \in DOMAIN q |-> [k |-> IntV(q[i][1]), v |-> q[i][2], t |-> IntV(i)]] :
        q \in SeqsUpTo({0, 1} \X {IntV(0), IntV(1), NoneV}, MaxSource)}

RecordsTable(name, records) ==
    [Schema(name, "master") EXCEPT !.has_records = TRUE, !.records = records]

PointerInputs ==
    {<<PointerTable("R", key, "v"), RecordsTable("R", records)>> :
        key \in {<<"k">>, <<"k", "v">>}, records \in SourceRows}

\* One table with a field of every type, reading a table of literal records.
TypeFields ==
    <<F("id", FieldDef("uuid")), F("kind", ConstDef(StrV(<<"x">>))), F("n", IntDef(1, 2)),
      F("day", FieldDef("date")), F("at", FieldDef("timestamp")), F("r", RefDef("R", "k")),
      F("code", CodeDef(MIXED)), F("v", VersionSeq), F("no", AutoInc),
      F("ratio", FieldDef("float")), F("tag", FieldDef("code")),
      F("opt", Nullable(WithDefault(IntDef(0, 9), IntV(5))))>>

TypeInputs ==
    {<<[Schema("T", type) EXCEPT !.count = 1, !.fields = TypeFields],
       RecordsTable("R", <<[k |-> IntV(0)], [k |-> IntV(1)]>>)>> :
        type \in {"master", "transactional", "view"}}

RunInputs ==
    GraphInputs(1) \cup ChildInputs \cup ImmutableInputs \cup PointerInputs \cup TypeInputs

InitResolve ==
    /\ schemas \in ResolveInputs
    /\ Fresh

NextResolve ==
    \/ BuildGraph
    \/ VisitNext
    \/ VisitDep
    \/ VisitOverflow
    \/ VisitEmit
    \/ VisitUnknown
    \/ ResolveReturn

SpecResolve == InitResolve /\ [][NextResolve]_vars

\* A whole run of main.
Init ==
    /\ schemas \in RunInputs
    /\ Fresh

Next ==
    \/ BuildGraph
    \/ VisitNext
    \/ VisitDep
    \/ VisitOverflow
    \/ VisitEmit
    \/ VisitUnknown
    \/ ResolveReturn
    \/ BeginTable
    \/ NextRow
    \/ FlatCell
    \/ ChildCell
    \/ RowDone
    \/ NextGroup
    \/ NextEntity
    \/ BaseCell
    \/ PickVersions
    \/ NextVersion
    \/ VersionCell
    \/ VersionRowDone
    \/ EndTable
    \/ Finish

Spec == Init /\ [][Next]_vars

\* Two runs of main, one after the other.
NextTwoRuns == Next \/ SecondRun

SpecTwoRuns == Init /\ [][NextTwoRuns]_vars

-----------------------------------------------------------------------------
\* Properties of resolve_dependencies.

\* The table names a schema references: the table of each ref field, its
\* parent, and the source_table of a pointer.
References(schema) ==
    {n \in {schema.fields[i].def.table : i \in DOMAIN schema.fields} :
        \E i \in DOMAIN schema.fields :
            schema.fields[i].def.type = "ref" /\ schema.fields[i].def.table = n}
    \cup {n \in {schema.parent} : n # Absent}
    \cup {n \in {schema.source_table} : schema.type = "pointer"}

TableNames(ss) == {ss[i].table_name : i \in DOMAIN ss}

AllPresent(ss) == \A i \in DOMAIN ss : References(ss[i]) \subseteq TableNames(ss)

\* The names reached from the names in S along at most n references.
RECURSIVE Reached(_, _, _)
Reached(ss, S, n) ==
    IF n = 0 THEN S
    ELSE Reached(ss, S \cup UNION {References(ss[i]) : i \in {j \in DOMAIN ss : ss[j].table_name \in S}},
                 n - 1)

Cyclic(ss) ==
    \E i \in DOMAIN ss : ss[i].table_name \in Reached(ss, References(ss[i]), Len(ss))

\* resolve_dependencies has returned its list.
Resolved == pc \in {"generate", "done"} \/ (pc = "failed" /\ cur > 0)

ResolveFailures == {"RecursionError", "KeyError: name_to_schema"}

\* C1: for an acyclic schema set whose references all name tables of the set,
\* in any input order, resolve_dependencies returns a sequence that holds each
\* input schema exactly once, every table behind all the tables it references.
C1_TopologicalOrder ==
    (~Cyclic(schemas) /\ AllPresent(schemas)) =>
        /\ outcome \notin ResolveFailures
        /\ pc = "generate" =>
            /\ Len(sorted_schemas) = Len(schemas)
            /\ \A i \in DOMAIN schemas :
                  Cardinality({j \in DOMAIN sorted_schemas : sorted_schemas[j] = schemas[i]}) = 1
            /\ \A j \in DOMAIN sorted_schemas :
                  \A d \in References(sorted_schemas[j]) :
                      \E k \in 1..(j - 1) : sorted_schemas[k].table_name = d

\* A returned order that differs from the input order, for a table that
\* references a table that references a third one.
C1_Witness ==
    /\ pc = "generate"
    /\ ~Cyclic(schemas)
    /\ AllPresent(schemas)
    /\ sorted_schemas # schemas
    /\ \E i, j \in DOMAIN schemas :
          /\ i < j
          /\ schemas[j].table_name \in References(schemas[i])
          /\ References(schemas[j]) # {}

\* C2: for a schema set whose references form a cycle, resolve_dependencies
\* never nests visit for a table already being visited, and ends with an
\* explicit cyclic-dependency error and no order.
C2_CycleDetected ==
    (Cyclic(schemas) /\ AllPresent(schemas)) =>
        /\ \A i, j \in DOMAIN stack : stack[i].n = stack[j].n => i = j
        /\ pc \notin {"build", "resolve"} =>
              pc = "failed" /\ outcome = "CyclicDependencyError"

\* C3: when a schema references a table name without a schema, resolve_dependencies
\* ends with the failure on the unknown name and returns no order, and no
\* entry for the unknown name is emitted. The KeyError of the lookup of the
\* unknown name is taken for that failure.
C3_UnknownReported ==
    ~AllPresent(schemas) =>
        /\ \A j \in DOMAIN sorted_schemas : sorted_schemas[j].table_name \in TableNames(schemas)
        /\ pc \notin {"build", "resolve"} =>
              pc = "failed" /\ outcome = "KeyError: name_to_schema"

-----------------------------------------------------------------------------
\* Properties of a run.

\* The calls of generate_value that took a value from a counter or a pattern:
\* the field is not nulled and has no default.
Synthesized(c) == ~c.def.has_default /\ ~(c.def.nullable /\ c.val = NoneV)

SchemaNamed(n) == CHOOSE sch \in Range(schemas) : sch.table_name = n

\* C4: a parent-less table never receives, for an auto_increment field, a value
\* that an earlier call of the run returned for that field name: its counter is
\* global and no other table's generation resets it.
C4_ParentlessCounterGlobal ==
    \A i, j \in DOMAIN calls :
        (/\ i < j
         /\ calls[i].def.type = "auto_increment" /\ Synthesized(calls[i])
         /\ calls[j].def.type = "auto_increment" /\ Synthesized(calls[j])
         /\ calls[i].field = calls[j].field
         /\ Kind(SchemaNamed(calls[j].table)) \in {"flat", "immutable"})
        => calls[i].val # calls[j].val

\* The rows of the table being generated, or just generated, that belong to
\* group g (a parent row, an entity), and the place of row r in its group.
GroupRows(g) == {r \in DOMAIN rows : row_group[r] = g}

PlaceInGroup(r) == Cardinality({q \in 1..r : row_group[q] = row_group[r]})

Consecutive == \A r \in 1..(Len(rows) - 1) : row_group[r] <= row_group[r + 1]

InKind(kind) == cur > 0 /\ Kind(Cur) = kind

\* The entities whose version loop is through.
EntitiesDone ==
    {g \in 1..pi : g < pi \/ gpc = "idle" \/ (gpc = "versions" /\ ver > versions)}

VersionFieldsOf(schema) ==
    {i \in DOMAIN schema.fields : schema.fields[i].def.type = "version_sequence"}

\* The shape of a parent-less immutable table: the rows of an entity are
\* consecutive, between a and b many, equal outside the version_sequence fields.
EntityShape ==
    /\ Consecutive
    /\ \A g \in EntitiesDone :
          /\ RangeMin(VersionRange(Cur)) <= Cardinality(GroupRows(g))
          /\ Cardinality(GroupRows(g)) <= RangeMax(VersionRange(Cur))
    /\ \A r, q \in DOMAIN rows :
          row_group[r] = row_group[q] =>
              \A i \in DOMAIN Cur.fields \ VersionFieldsOf(Cur) :
                  rows[r][Cur.fields[i].name] = rows[q][Cur.fields[i].name]

VersionOf(r) ==
    IF \E i \in DOMAIN Cur.fields \ VersionFieldsOf(Cur) : Cur.fields[i].name = "__version__"
    THEN rows[r]["__version__"]
    ELSE IntV(PlaceInGroup(r))

FirstWithKey(source, key_fields, r) ==
    Min({m \in DOMAIN source : KeyOf(source[m], key_fields) = KeyOf(r, key_fields)})

\* C6: a pointer table holds one row for each key of its source table, in the
\* order the keys first occur, and each is the first row of its key group
\* that holds the largest latest_field of the group; the source rows stay as
\* they were.
C6_PointerLatest ==
    (InKind("pointer") /\ gpc \in {"return", "idle"}) =>
        LET source == DATA[Cur.source_table]
            key_of(r) == KeyOf(r, Cur.key)
            latest(r) == r[Cur.latest_field]
        IN  /\ {key_of(rows[i]) : i \in DOMAIN rows} = {key_of(source[m]) : m \in DOMAIN source}
            /\ \A i, j \in DOMAIN rows :
                  i < j => FirstWithKey(source, Cur.key, rows[i])
                           < FirstWithKey(source, Cur.key, rows[j])
            /\ \A i \in DOMAIN rows :
                  \E m \in DOMAIN source :
                      /\ rows[i] = source[m]
                      /\ \A q \in DOMAIN source :
                            key_of(source[q]) = key_of(source[m]) =>
                                /\ latest(source[q]).n <= latest(source[m]).n
                                /\ latest(source[q]) = latest(source[m]) => m <= q
            /\ SchemaNamed(Cur.source_table).has_records =>
                  source = SchemaNamed(Cur.source_table).records

\* A pointer over a source with two keys, where the largest value of a key
\* group occurs in two rows that differ: the first of them is taken.
C6_Witness ==
    /\ InKind("pointer")
    /\ gpc = "idle"
    /\ Len(rows) = 2
    /\ LET source == DATA[Cur.source_table]
       IN  \E a, b \in DOMAIN source :
              /\ a < b
              /\ KeyOf(source[a], Cur.key) = KeyOf(source[b], Cur.key)
              /\ source[a][Cur.latest_field] = source[b][Cur.latest_field]
              /\ source[a] \in Range(rows)
              /\ source[b] \notin Range(rows)

\* The calls of generate_value that expanded pattern p, and the number of its
\* seq tokens.
Expansions(p) ==
    {i \in DOMAIN calls :
        /\ calls[i].def.type = "code"
        /\ PatternOf(calls[i].def) = p
        /\ Synthesized(calls[i])}

SeqTokens(p) ==
    Cardinality({i \in DOMAIN p : i + 4 <= Len(p)
                                  /\ SubSeq(p, i, i + 4) = <<"{", "s", "e", "q", ":">>})

PatternsUsed ==
    UNION {{PatternOf(schemas[i].fields[j].def) :
               j \in {x \in DOMAIN schemas[i].fields : schemas[i].fields[x].def.type = "code"}} :
           i \in DOMAIN schemas}

\* k as four decimal digits, for k < 10000.
FourDigits(k) ==
    <<DigitChars[((k \div 1000) % 10) + 1], DigitChars[((k \div 100) % 10) + 1],
      DigitChars[((k \div 10) % 10) + 1], DigitChars[(k % 10) + 1]>>

\* C7: the k-th synthesis of a code field with pattern "INV-{seq:4}" returns
\* "INV-" and k in four digits, in whatever rows and tables the calls are made;
\* the counter of a pattern is the number of seq tokens expanded for that
\* pattern since the start of the run, whatever other patterns were expanded
\* and whatever counters were cleared for parent groups.
C7_SeqByPattern ==
    /\ \A i \in Expansions(INV) :
          calls[i].val
              = StrV(<<"I", "N", "V", "-">> \o FourDigits(Cardinality({j \in Expansions(INV) : j <= i})))
    /\ \A i \in Expansions(PAIR) :
          LET k == Cardinality({j \in Expansions(PAIR) : j <= i})
          IN  calls[i].val = StrV(Digits(2 * k - 1) \o <<"/">> \o <<"0">> \o Digits(2 * k))
    /\ pc # "failed" =>
          \A p \in PatternsUsed :
              Get(SEQ_COUNTER, p, 0) = Cardinality(Expansions(p)) * SeqTokens(p)

\* Three calls for "INV-{seq:4}" from two tables, the third one "INV-0003",
\* made for the second parent row, after the counters were cleared twice, and a
\* call for another pattern later on.
C7_Witness ==
    /\ pc = "done"
    /\ \E i, j, k \in Expansions(INV) :
          /\ i < j /\ j < k
          /\ calls[i].table = "M1"
          /\ calls[k].table = "C"
          /\ calls[k].val = StrV(<<"I", "N", "V", "-", "0", "0", "0", "3">>)
    /\ Cardinality(Expansions(INV)) >= 5
    /\ Expansions(PAIR) # {}

\* C8: a second run on the same schemas with the same seeds ends with the same
\* tables in the Dataset Store as the first.
C8_RunsIdentical == (run = 2 /\ pc = "done") => DATA = first_DATA

\* C9: in a run whose schema set resolves, the tables are stored one at a time
\* in the resolved order, each name once, and whatever table the generation of
\* a table reads is in the store: neither the lookup of a ref table, nor of the
\* parent table, nor of the source table fails.
C9_StoredInResolvedOrder ==
    /\ outcome \notin {"KeyError: ref table not generated", "KeyError: DATA"}
    /\ Resolved =>
          /\ Len(written) <= Len(sorted_schemas)
          /\ \A i \in DOMAIN written : written[i] = sorted_schemas[i].table_name
          /\ \A i, j \in DOMAIN written : written[i] = written[j] => i = j
          /\ DOMAIN DATA = Range(written)
          /\ (pc = "generate" /\ gpc # "idle") =>
                /\ Len(written) = cur - 1
                /\ References(Cur) \subseteq DOMAIN DATA
          /\ pc = "done" => Len(written) = Len(schemas)

\* A finished run of three tables given in another order than the resolved
\* one, in which a ref field, a parent and a pointer source were read.
C9_Witness ==
    /\ pc = "done"
    /\ Len(written) = 3
    /\ written # [i \in DOMAIN schemas |-> schemas[i].table_name]
    /\ \E i \in DOMAIN calls : calls[i].def.type = "ref" /\ calls[i].val # NoneV
    /\ \E i \in DOMAIN schemas : Kind(schemas[i]) \in {"child", "pointer"}

\* The groups of a table with a parent that are through.
GroupsDone == {g \in 1..pi : g < pi \/ gpc = "idle" \/ (gpc = "rows" /\ left = 0)}

\* C10: the rows of a transactional or immutable table with a parent come in
\* groups, one for each parent row in the order of the parent table, of
\* between a and b rows; and a ref field to a field that the parent row has
\* holds the value of the parent row of the group, also when the field is
\* nullable or has a default.
C10_ChildGroups ==
    InKind("child") =>
        LET parents == DATA[Cur.parent]
        IN  /\ Consecutive
            /\ \A r \in DOMAIN rows : row_group[r] \in 1..pi
            /\ pi <= Len(parents)
            /\ gpc = "idle" => pi = Len(parents)
            /\ \A g \in GroupsDone :
                  /\ RangeMin(CountRange(Cur)) <= Cardinality(GroupRows(g))
                  /\ Cardinality(GroupRows(g)) <= RangeMax(CountRange(Cur))
            /\ \A r \in DOMAIN rows : \A i \in DOMAIN Cur.fields :
                  LET def == Cur.fields[i].def
                  IN  (/\ def.type = "ref"
                       /\ def.table = Cur.parent
                       /\ def.field \in DOMAIN parents[row_group[r]])
                      => rows[r][Cur.fields[i].name] = parents[row_group[r]][def.field]

\* A table with a parent of two rows: a group of one row and a group of two,
\* each row holding the id of its own parent row.
C10_Witness ==
    /\ InKind("child")
    /\ gpc = "idle"
    /\ Cur.count_per_parent = <<"1", "~", "2">>
    /\ Len(DATA[Cur.parent]) = 2
    /\ Cardinality(GroupRows(1)) = 1
    /\ Cardinality(GroupRows(2)) = 2
    /\ \A r \in DOMAIN rows : rows[r]["m_id"] = DATA[Cur.parent][row_group[r]]["id"]
    /\ DATA[Cur.parent][1]["id"] # DATA[Cur.parent][2]["id"]

====
